---- MODULE Spec2Model ----
(***************************************************************************)
(* Tiered file migration (Hot <-> Cold), the metadata index and the        *)
(* claim-based authorization of the callable functions of                  *)
(* functions/src/index.ts, together with the client steps of FileList,     *)
(* FileUpload and Main that act on the same stores.                        *)
(*                                                                         *)
(* Every await of a handler is an interleaving point: a handler with more  *)
(* than one backend access runs in a call slot, one action per await.  A   *)
(* handler with a single backend access is one action.                     *)
(***************************************************************************)
EXTENDS Integers, Sequences, FiniteSets, TLC

\* ---------------------------------------------------------------- bounds
\* number of operations issued in one behaviour
MaxCalls == 2

\* ------------------------------------------------------------- universes
Uids == {"u1", "u2"}
NoAuth == "anonymous"
Callers == Uids \cup {NoAuth}
Names == {"f1", "f2"}
NoName == ""
Bytes == {"b1", "b2", "bx"}
UploadBytes == {"b2"}
None == "none"

\* Math.random().toString(36): "0." and the base-36 digits of the fraction, as
\* many as the double needs (0.5 is "0.i", 1/256 is "0.0529"; most values need
\* eleven or so)
RandomStrings ==
  {<<"0", ".", "i">>,
   <<"0", ".", "0", "5", "2", "9">>,
   <<"0", ".", "4", "f", "z", "y", "o", "8", "2", "m", "v", "y", "r">>,
   <<"0", ".", "c", "1", "q", "7", "k", "d", "3", "w", "x", "a", "5">>}

\* s.slice(-8): the last eight symbols of s, all of s when it has fewer
Slice8(s) == SubSeq(s, IF Len(s) > 8 THEN Len(s) - 7 ELSE 1, Len(s))

\* the secrets that resetUserPassword generates
Passwords == {Slice8(r) : r \in RandomStrings}

\* the secret the accounts start with
InitPassword == <<"y", "o", "8", "2", "m", "v", "y", "r">>
Slots == {1, 2}
NoUid == ""

\* the (account, fileName) pairs explored: two names for u1, and one name that
\* both accounts use
Keys == {<<"u1", "f1">>, <<"u1", "f2">>, <<"u2", "f1">>}
NamesOf(u) == IF u \in Uids THEN {n \in Names : <<u, n>> \in Keys} ELSE {"f1"}

\* a download URL of a Hot object is a bearer reference to (owner, name);
\* any other URL is external
HotUrl(u, n) == [kind |-> "hot", owner |-> u, name |-> n]
ExtUrl == [kind |-> "ext", owner |-> NoUid, name |-> NoName]
\* no fileUrl in the request data
NoUrl == [kind |-> "none", owner |-> NoUid, name |-> NoName]
Urls == {HotUrl(u, n) : u \in Uids, n \in Names} \cup {ExtUrl}

Claims == [admin : BOOLEAN, gcpAccess : BOOLEAN]
NoClaims == [admin |-> FALSE, gcpAccess |-> FALSE]

VARIABLES
  accounts,   \* Firebase Auth user records: uid -> exists/disabled/password/claims,
              \* and whether the account's onCreate event has been delivered
  userDocs,   \* Firestore users/{uid}: exists / isAdmin / the fields that
              \* setCustomAdminClaims does not name
  token,      \* claims carried by each account's current session token
  hot,        \* Firebase Storage: <<uid, name>> -> bytes or None
  cold,       \* GCP bucket: <<uid, name>> -> bytes or None
  index,      \* Firestore gcpFiles/{uid}/files/{name}: entry present
  tmp,        \* /tmp/{fileName} of the functions instance: bytes or None
  calls,      \* handlers in flight, one per slot
  reply,      \* the response returned by the step just taken, if it returned one
  issued,     \* operations issued so far
  batch,      \* GCPBucketList.handleReceiveFiles: the batch retrieve of one client
  client      \* the web client: AuthProvider state, auth SDK state, router location

vars == <<accounts, userDocs, token, hot, cold, index, tmp, calls, reply, issued,
          batch, client>>

stores == <<hot, cold, index>>

\* ------------------------------------------------------------ call records
TierOps == {"uploadToGCPBucket", "downloadFromGCPBucket", "listGCPFiles"}
LifecycleOps == {"fetchUsers", "resetUserPassword", "disableUserAccount",
                 "enableUserAccount", "deleteUserAccount"}

\* an object sits at the Cold key with no index entry for it
Orphan(k) == k \in Keys /\ cold[k] # None /\ ~index[k]

\* the file of key k is in the Cold tier only, with its index entry
OnlyCold(k) == k \in Keys /\ hot[k] = None /\ cold[k] # None /\ index[k]

\* request.auth / context.auth of a call: the caller and the claims decoded from
\* the session token the call carries; orphan records whether the call was
\* issued with the object of its key in the Cold tier and not in the index,
\* archived whether it was issued with the file of its key archived;
\* users and pageToken are the locals of fetchUsers
Call(op, caller, name, url, via, target, flag) ==
  [op |-> op, caller |-> caller,
   tok |-> IF caller \in Uids THEN token[caller] ELSE NoClaims,
   name |-> name, url |-> url, via |-> via, target |-> target, flag |-> flag,
   pc |-> "begin", bytes |-> None, quiet |-> TRUE,
   orphan |-> Orphan(<<caller, name>>),
   archived |-> OnlyCold(<<caller, name>>),
   users |-> <<>>, pageToken |-> NoUid]

Idle == [op |-> "none", caller |-> NoAuth, tok |-> NoClaims, name |-> NoName,
         url |-> ExtUrl, via |-> "direct", target |-> NoUid, flag |-> "false",
         pc |-> "idle", bytes |-> None, quiet |-> TRUE, orphan |-> FALSE,
         archived |-> FALSE, users |-> <<>>, pageToken |-> NoUid]

InFlight(c) == calls[c].op # "none"

\* a new call takes the lowest free slot
FreeSlot(c) == ~InFlight(c) /\ \A d \in Slots : d < c => InFlight(d)

NoData == {}
NoReply == [call |-> Idle, code |-> "none", data |-> NoData, cleanup |-> "none"]

\* the response of a call: "ok" or the HttpsError code thrown; cleanup records
\* what the finally block of uploadToGCPBucket did before the response went out
Reply(call, code, data) ==
  [call |-> call, code |-> code, data |-> data, cleanup |-> "none"]

\* quiet: no other operation wrote hot, cold, index or /tmp while the call was
\* in flight.  A step of slot c that writes clears it for the other calls in
\* flight (c = 0: a write made outside the slots).
Disturb(cs, c) ==
  [d \in Slots |->
     IF d # c /\ cs[d].op # "none" THEN [cs[d] EXCEPT !.quiet = FALSE] ELSE cs[d]]

Budget == issued < MaxCalls

Key(call) == <<call.caller, call.name>>

\* -------------------------------------------- GCPBucketList.handleReceiveFiles
\* the handler's locals and the component state it sets: selectedFiles is the
\* array the handler iterates, i the position of its for loop
NoBatch ==
  [user |-> NoAuth, selectedFiles |-> <<>>, i |-> 0,
   successfulDownloads |-> <<>>, failedDownloads |-> <<>>,
   isReceiving |-> FALSE, alert |-> "none", error |-> FALSE]

\* BatchAfter whose catch gives up the rest of the selection, as the catch of
\* FileList.moveToGCPBucket does
BatchAfter_Aborts(c) ==
  IF calls[c].via = "batch" /\ calls'[c].op = "none"
    THEN IF reply'.code = "ok"
           THEN [batch EXCEPT !.i = @ + 1,
                              !.successfulDownloads = Append(@, calls[c].name)]
           ELSE [batch EXCEPT !.i = Len(batch.selectedFiles) + 1,
                              !.failedDownloads = Append(@, calls[c].name)]
    ELSE batch

\* try { await receiveFile({fileName}); successfulDownloads.push(fileName) }
\* catch { failedDownloads.push(fileName) }: what the step of slot c that ends
\* the call of the batch does to the batch; the loop goes on to the next name
BatchAfter(c) ==
  IF calls[c].via = "batch" /\ calls'[c].op = "none"
    THEN IF reply'.code = "ok"
           THEN [batch EXCEPT !.i = @ + 1,
                              !.successfulDownloads = Append(@, calls[c].name)]
           ELSE [batch EXCEPT !.i = @ + 1,
                              !.failedDownloads = Append(@, calls[c].name)]
    ELSE batch

\* ----------------------------------------------------------- the web client
Paths == {"/", "/login", "/signup", "/main", "/admin", "/other"}

\* AuthProvider as mounted by a page load: useState(null), useState(false),
\* useState(true).  authUser is auth.currentUser of the auth SDK (it outlives a
\* page load), pending an auth state not yet delivered to the listener of
\* onAuthStateChanged (the SDK delivers the current one after the listener is
\* registered), listeners the listener callbacks awaiting, loginPc, loginUser and
\* logoutPc the positions of login() and logout(), loginAttempted the state of
\* the Login page, path the router's location.
Mounted(user, path) ==
  [currentUser |-> NoAuth, isAdmin |-> FALSE, loading |-> TRUE,
   authUser |-> user, pending |-> TRUE, listeners |-> {},
   loginPc |-> "idle", loginUser |-> NoAuth, logoutPc |-> "idle",
   loginAttempted |-> FALSE, path |-> path]

\* ------------------------------------------------------------------- Init
Init ==
  /\ accounts = [u \in Uids |->
       [exists |-> TRUE, disabled |-> FALSE, password |-> InitPassword,
        claims |-> [admin |-> (u = "u1"), gcpAccess |-> (u = "u1")],
        onCreate |-> IF u = "u1" THEN "done" ELSE "pending"]]
  /\ userDocs = [u \in Uids |->
       [exists |-> (u = "u1"), isAdmin |-> (u = "u1"),
        other |-> IF u = "u1" THEN "x" ELSE None]]
  /\ token = [u \in Uids |-> accounts[u].claims]
  /\ hot = [k \in Keys |->
       IF k[2] = "f1" THEN (IF k[1] = "u1" THEN "b1" ELSE "b2") ELSE None]
  /\ cold = [k \in Keys |-> IF k[2] = "f2" THEN "b1" ELSE None]
  /\ index = [k \in Keys |-> cold[k] # None]
  /\ tmp = [n \in Names |-> None]
  /\ calls = [c \in Slots |-> Idle]
  /\ reply = NoReply
  /\ issued = 0
  /\ batch = NoBatch
  /\ client = Mounted(NoAuth, "/")

\* ------------------------------------------------ Archive: uploadToGCPBucket
\* a handler step ends the call: the response goes out and the slot is freed
Return(cs, c, code, data) ==
  /\ reply' = Reply(cs[c], code, data)
  /\ calls' = [cs EXCEPT ![c] = Idle]

\* finally { fs.unlinkSync(path.join("/tmp", fileName)) }: removes whatever file
\* is at that path; a missing file, or a path.join that throws for a fileName
\* that is not a string, only logs a warning
Unlink(t, n) == IF n \in Names THEN [t EXCEPT ![n] = None] ELSE t

\* try { unlinkSync } catch (cleanupError) { console.warn }: the unlink throws
\* when no file is at the path (never staged, or removed by another call)
Cleanup(t, n) == IF Unlink(t, n) # t THEN "removed" ELSE "warned"

\* UploadDone whose finally lets the error of the unlink escape: it replaces
\* the value returned
UploadDone_CleanupThrows(c, code) ==
  [Reply(calls[c], IF Cleanup(tmp, calls[c].name) = "warned" THEN "internal" ELSE code,
         NoData)
     EXCEPT !.cleanup = Cleanup(tmp, calls[c].name)]

\* the response of an uploadToGCPBucket call: the finally block runs after the
\* return or the throw and does not change it
UploadDone(c, code) ==
  [Reply(calls[c], code, NoData) EXCEPT !.cleanup = Cleanup(tmp, calls[c].name)]

\* catch (error) { throw HttpsError("internal") } finally { unlink }
UploadFail(c) ==
  /\ tmp' = Unlink(tmp, calls[c].name)
  /\ reply' = UploadDone(c, "internal")
  /\ calls' = [(IF Unlink(tmp, calls[c].name) # tmp THEN Disturb(calls, c) ELSE calls)
                 EXCEPT ![c] = Idle]

\* Fetched that still answers a 2xx for the URL of a deleted Hot object
Fetched_Stale(url) ==
  IF url.kind = "hot"
    THEN {IF hot[<<url.owner, url.name>>] # None
            THEN hot[<<url.owner, url.name>>] ELSE "b1", None}
    ELSE IF url.kind = "ext" THEN {"bx", None} ELSE {None}

\* what fetch(fileUrl) answers: the bytes of a 2xx response, or None for an
\* unreachable source or a non-success status, or when fetch throws for a
\* fileUrl that is no URL
Fetched(url) ==
  IF url.kind = "hot"
    THEN {hot[<<url.owner, url.name>>], None}
    ELSE IF url.kind = "ext" THEN {"bx", None} ELSE {None}

uploadToGCPBucket(c, caller, fileName, fileUrl, via) ==
  LET call == Call("uploadToGCPBucket", caller, fileName, fileUrl, via, NoUid, "false") IN
  /\ Budget /\ FreeSlot(c)
  /\ issued' = issued + 1
  /\ IF caller = NoAuth
       THEN /\ reply' = Reply(call, "unauthenticated", NoData)
            /\ UNCHANGED calls
       ELSE /\ reply' = NoReply
            /\ calls' = [calls EXCEPT ![c] = [call EXCEPT !.pc = "fetch"]]
  /\ UNCHANGED <<accounts, userDocs, token, hot, cold, index, tmp, batch, client>>

\* const response = await fetch(fileUrl); if (!response.ok) throw;
\* path.join("/tmp", fileName) throws for a fileName that is not a string
UploadFetch(c) ==
  /\ calls[c].op = "uploadToGCPBucket" /\ calls[c].pc = "fetch"
  /\ \E b \in Fetched(calls[c].url) :
       IF b = None \/ calls[c].name = NoName
         THEN UploadFail(c)
         ELSE /\ calls' = [calls EXCEPT ![c].pc = "stage", ![c].bytes = b]
              /\ reply' = NoReply
              /\ UNCHANGED tmp
  /\ UNCHANGED <<accounts, userDocs, token, hot, cold, index, issued, batch, client>>

\* the ways the staging promise can go: the write stream finishes (resolve);
\* the response stream emits an error (reject); or neither event comes, for a
\* response without a body (response.body?. does nothing, so nothing is piped
\* and nothing listened to) and for an error of the write stream, on which the
\* promise has no listener
StageOutcomes == {"finish", "error", "unsettled"}

\* await new Promise((resolve, reject) => { response.body?.pipe(writeStream);
\* response.body?.on("error", reject); writeStream.on("finish", resolve) })
\* with writeStream = fs.createWriteStream("/tmp/" + fileName).  A promise that
\* never settles leaves the handler at its await: no catch, no finally.
UploadStage(c) ==
  /\ calls[c].op = "uploadToGCPBucket" /\ calls[c].pc = "stage"
  /\ \E outcome \in StageOutcomes :
       CASE outcome = "finish" ->
              /\ tmp' = [tmp EXCEPT ![calls[c].name] = calls[c].bytes]
              /\ calls' = Disturb([calls EXCEPT ![c].pc = "cold"], c)
              /\ reply' = NoReply
         [] outcome = "error" -> UploadFail(c)
         [] outcome = "unsettled" ->
              /\ calls' = [calls EXCEPT ![c].pc = "awaiting"]
              /\ reply' = NoReply
              /\ UNCHANGED tmp
  /\ UNCHANGED <<accounts, userDocs, token, hot, cold, index, issued, batch, client>>


\* UploadCold whose failed upload leaves a partial object at the destination
UploadCold_Partial(c) ==
  /\ calls[c].op = "uploadToGCPBucket" /\ calls[c].pc = "cold"
  /\ \E ok \in BOOLEAN :
       IF ok /\ tmp[calls[c].name] # None
         THEN /\ cold' = [cold EXCEPT ![Key(calls[c])] = tmp[calls[c].name]]
              /\ calls' = Disturb([calls EXCEPT ![c].pc = "index"], c)
              /\ reply' = NoReply
              /\ UNCHANGED tmp
         ELSE /\ UploadFail(c)
              /\ cold' = [cold EXCEPT ![Key(calls[c])] = "bx"]
  /\ UNCHANGED <<accounts, userDocs, token, hot, index, issued, batch, client>>

\* UploadCold whose destination is not the key of the call
UploadCold_OtherKey(c) ==
  /\ calls[c].op = "uploadToGCPBucket" /\ calls[c].pc = "cold"
  /\ \E ok \in BOOLEAN :
       IF ok /\ tmp[calls[c].name] # None
         THEN /\ \E k \in Keys \ {Key(calls[c])} :
                   cold' = [cold EXCEPT ![k] = tmp[calls[c].name]]
              /\ calls' = Disturb([calls EXCEPT ![c].pc = "index"], c)
              /\ reply' = NoReply
              /\ UNCHANGED tmp
         ELSE /\ UploadFail(c)
              /\ UNCHANGED cold
  /\ UNCHANGED <<accounts, userDocs, token, hot, index, issued, batch, client>>

\* UploadCold that uploads other bytes than the staged ones
UploadCold_Reencoded(c) ==
  /\ calls[c].op = "uploadToGCPBucket" /\ calls[c].pc = "cold"
  /\ \E ok \in BOOLEAN :
       IF ok /\ tmp[calls[c].name] # None
         THEN /\ cold' = [cold EXCEPT ![Key(calls[c])] = "bx"]
              /\ calls' = Disturb([calls EXCEPT ![c].pc = "index"], c)
              /\ reply' = NoReply
              /\ UNCHANGED tmp
         ELSE /\ UploadFail(c)
              /\ UNCHANGED cold
  /\ UNCHANGED <<accounts, userDocs, token, hot, index, issued, batch, client>>

\* UploadCold whose handler goes on to the index write after a failed upload
UploadCold_GoesOn(c) ==
  /\ calls[c].op = "uploadToGCPBucket" /\ calls[c].pc = "cold"
  /\ \E ok \in BOOLEAN :
       /\ cold' = IF ok /\ tmp[calls[c].name] # None
                    THEN [cold EXCEPT ![Key(calls[c])] = tmp[calls[c].name]]
                    ELSE cold
       /\ calls' = Disturb([calls EXCEPT ![c].pc = "index"], c)
       /\ reply' = NoReply
       /\ UNCHANGED tmp
  /\ UNCHANGED <<accounts, userDocs, token, hot, index, issued, batch, client>>

\* await bucket.upload(tempFilePath, { destination: uid/fileName }): uploads the
\* file now at the staging path; fails when it is missing or the bucket fails
UploadCold(c) ==
  /\ calls[c].op = "uploadToGCPBucket" /\ calls[c].pc = "cold"
  /\ \E ok \in BOOLEAN :
       IF ok /\ tmp[calls[c].name] # None
         THEN /\ cold' = [cold EXCEPT ![Key(calls[c])] = tmp[calls[c].name]]
              /\ calls' = Disturb([calls EXCEPT ![c].pc = "index"], c)
              /\ reply' = NoReply
              /\ UNCHANGED tmp
         ELSE /\ UploadFail(c)
              /\ UNCHANGED cold
  /\ UNCHANGED <<accounts, userDocs, token, hot, index, issued, batch, client>>


\* UploadIndex with the index write left out
UploadIndex_NoWrite(c) ==
  /\ calls[c].op = "uploadToGCPBucket" /\ calls[c].pc = "index"
  /\ tmp' = Unlink(tmp, calls[c].name)
  /\ reply' = UploadDone(c, "ok")
  /\ calls' = Disturb([calls EXCEPT ![c] =
                IF calls[c].via = "move"
                  THEN [calls[c] EXCEPT !.op = "moveToGCPBucket", !.pc = "hotDelete"]
                  ELSE Idle], c)
  /\ UNCHANGED <<accounts, userDocs, token, hot, cold, index, issued, batch, client>>

\* UploadIndex whose caller goes on to the Hot delete after a failed index write
UploadIndex_GoesOn(c) ==
  /\ calls[c].op = "uploadToGCPBucket" /\ calls[c].pc = "index"
  /\ \E ok \in BOOLEAN :
       /\ index' = IF ok THEN [index EXCEPT ![Key(calls[c])] = TRUE] ELSE index
       /\ tmp' = Unlink(tmp, calls[c].name)
       /\ reply' = UploadDone(c, IF ok THEN "ok" ELSE "internal")
       /\ calls' = Disturb([calls EXCEPT ![c] =
                     IF calls[c].via = "move"
                       THEN [calls[c] EXCEPT !.op = "moveToGCPBucket",
                                             !.pc = "hotDelete"]
                       ELSE Idle], c)
  /\ UNCHANGED <<accounts, userDocs, token, hot, cold, issued, batch, client>>

\* await firestore gcpFiles/{uid}/files/{fileName}.set({url}); return; finally
\* unlink.  A call made by FileList.moveToGCPBucket goes on to the client's
\* deleteObject of the Hot object.
UploadIndex(c) ==
  /\ calls[c].op = "uploadToGCPBucket" /\ calls[c].pc = "index"
  /\ \E ok \in BOOLEAN :
       IF ok
         THEN /\ index' = [index EXCEPT ![Key(calls[c])] = TRUE]
              /\ tmp' = Unlink(tmp, calls[c].name)
              /\ reply' = UploadDone(c, "ok")
              /\ calls' = Disturb([calls EXCEPT ![c] =
                            IF calls[c].via = "move"
                              THEN [calls[c] EXCEPT !.op = "moveToGCPBucket",
                                                    !.pc = "hotDelete"]
                              ELSE Idle], c)
         ELSE /\ UploadFail(c)
              /\ UNCHANGED index
  /\ UNCHANGED <<accounts, userDocs, token, hot, cold, issued, batch, client>>

\* MoveDeleteHot whose catch swallows a failed deleteObject
MoveDeleteHot_Silent(c) ==
  /\ calls[c].op = "moveToGCPBucket" /\ calls[c].pc = "hotDelete"
  /\ \E ok \in BOOLEAN :
       IF ok /\ hot[Key(calls[c])] # None
         THEN /\ hot' = [hot EXCEPT ![Key(calls[c])] = None]
              /\ Return(Disturb(calls, c), c, "ok", NoData)
         ELSE /\ Return(calls, c, "ok", NoData)
              /\ UNCHANGED hot
  /\ UNCHANGED <<accounts, userDocs, token, cold, index, tmp, issued, batch, client>>

\* FileList.moveToGCPBucket after moveFile resolved: await deleteObject(ref(
\* storage, uid/name)); a failure lands in the catch (setError)
MoveDeleteHot(c) ==
  /\ calls[c].op = "moveToGCPBucket" /\ calls[c].pc = "hotDelete"
  /\ \E ok \in BOOLEAN :
       IF ok /\ hot[Key(calls[c])] # None
         THEN /\ hot' = [hot EXCEPT ![Key(calls[c])] = None]
              /\ Return(Disturb(calls, c), c, "ok", NoData)
         ELSE /\ Return(calls, c, "client-error", NoData)
              /\ UNCHANGED hot
  /\ UNCHANGED <<accounts, userDocs, token, cold, index, tmp, issued, batch, client>>

\* --------------------------------------------- Retrieve: downloadFromGCPBucket
\* catch (error) { throw HttpsError("internal") }
DownloadFail(c) == Return(calls, c, "internal", NoData)

downloadFromGCPBucket(c, caller, fileName) ==
  LET call == Call("downloadFromGCPBucket", caller, fileName, ExtUrl, "direct",
                   NoUid, "false") IN
  /\ Budget /\ FreeSlot(c)
  /\ issued' = issued + 1
  /\ IF caller = NoAuth
       THEN /\ reply' = Reply(call, "unauthenticated", NoData)
            /\ UNCHANGED calls
       ELSE IF fileName = NoName
         THEN /\ reply' = Reply(call, "invalid-argument", NoData)
              /\ UNCHANGED calls
         ELSE /\ reply' = NoReply
              /\ calls' = [calls EXCEPT ![c] = [call EXCEPT !.pc = "download"]]
  /\ UNCHANGED <<accounts, userDocs, token, hot, cold, index, tmp, batch, client>>

\* const [contents] = await bucket.file(uid/fileName).download()
DownloadRead(c) ==
  /\ calls[c].op = "downloadFromGCPBucket" /\ calls[c].pc = "download"
  /\ \E ok \in BOOLEAN :
       IF ok /\ cold[Key(calls[c])] # None
         THEN /\ calls' = [calls EXCEPT ![c].pc = "save",
                                        ![c].bytes = cold[Key(calls[c])]]
              /\ reply' = NoReply
         ELSE DownloadFail(c)
  /\ UNCHANGED <<accounts, userDocs, token, hot, cold, index, tmp, issued>>
  /\ batch' = BatchAfter(c)
  /\ UNCHANGED client

\* DownloadSave whose handler goes on to the Cold delete after a failed save
DownloadSave_GoesOn(c) ==
  /\ calls[c].op = "downloadFromGCPBucket" /\ calls[c].pc = "save"
  /\ \E ok \in BOOLEAN :
       /\ hot' = IF ok THEN [hot EXCEPT ![Key(calls[c])] = calls[c].bytes] ELSE hot
       /\ calls' = Disturb([calls EXCEPT ![c].pc = "deleteCold"], c)
       /\ reply' = NoReply
  /\ UNCHANGED <<accounts, userDocs, token, cold, index, tmp, issued>>
  /\ batch' = BatchAfter(c)
  /\ UNCHANGED client

\* await admin.storage().bucket().file(uid/fileName).save(contents)
DownloadSave(c) ==
  /\ calls[c].op = "downloadFromGCPBucket" /\ calls[c].pc = "save"
  /\ \E ok \in BOOLEAN :
       IF ok
         THEN /\ hot' = [hot EXCEPT ![Key(calls[c])] = calls[c].bytes]
              /\ calls' = Disturb([calls EXCEPT ![c].pc = "deleteCold"], c)
              /\ reply' = NoReply
         ELSE /\ DownloadFail(c)
              /\ UNCHANGED hot
  /\ UNCHANGED <<accounts, userDocs, token, cold, index, tmp, issued>>
  /\ batch' = BatchAfter(c)
  /\ UNCHANGED client


\* DownloadDeleteCold that goes on without deleting the Cold object
DownloadDeleteCold_Skips(c) ==
  /\ calls[c].op = "downloadFromGCPBucket" /\ calls[c].pc = "deleteCold"
  /\ calls' = [calls EXCEPT ![c].pc = "deleteIndex"]
  /\ reply' = NoReply
  /\ UNCHANGED <<accounts, userDocs, token, hot, cold, index, tmp, issued, batch, client>>

\* await file.delete(): fails when the object is gone or the bucket fails
DownloadDeleteCold(c) ==
  /\ calls[c].op = "downloadFromGCPBucket" /\ calls[c].pc = "deleteCold"
  /\ \E ok \in BOOLEAN :
       IF ok /\ cold[Key(calls[c])] # None
         THEN /\ cold' = [cold EXCEPT ![Key(calls[c])] = None]
              /\ calls' = Disturb([calls EXCEPT ![c].pc = "deleteIndex"], c)
              /\ reply' = NoReply
         ELSE /\ DownloadFail(c)
              /\ UNCHANGED cold
  /\ UNCHANGED <<accounts, userDocs, token, hot, index, tmp, issued>>
  /\ batch' = BatchAfter(c)
  /\ UNCHANGED client

\* await firestore gcpFiles/{uid}/files/{fileName}.delete(); return
DownloadDeleteIndex(c) ==
  /\ calls[c].op = "downloadFromGCPBucket" /\ calls[c].pc = "deleteIndex"
  /\ \E ok \in BOOLEAN :
       IF ok
         THEN /\ index' = [index EXCEPT ![Key(calls[c])] = FALSE]
              /\ Return(Disturb(calls, c), c, "ok", NoData)
         ELSE /\ DownloadFail(c)
              /\ UNCHANGED index
  /\ UNCHANGED <<accounts, userDocs, token, hot, cold, tmp, issued>>
  /\ batch' = BatchAfter(c)
  /\ UNCHANGED client

\* ------------------------------------------------------------ listGCPFiles
\* Listing read from the index entries of the caller
Listing_FromIndex(uid) == {n \in NamesOf(uid) : index[<<uid, n>>]}

\* bucket.getFiles({ prefix: uid + "/" }), names with the prefix removed
Listing(uid) == {n \in NamesOf(uid) : cold[<<uid, n>>] # None}

listGCPFiles(caller) ==
  LET call == Call("listGCPFiles", caller, NoName, ExtUrl, "direct", NoUid, "false") IN
  /\ Budget
  /\ issued' = issued + 1
  /\ IF caller = NoAuth
       THEN reply' = Reply(call, "unauthenticated", NoData)
       ELSE \E ok \in BOOLEAN :
              reply' = IF ok THEN Reply(call, "ok", Listing(caller))
                             ELSE Reply(call, "internal", NoData)
  /\ UNCHANGED <<accounts, userDocs, token, hot, cold, index, tmp, calls, batch, client>>

\* ------------------------------------------------------- batch retrieve
\* the selections of the checked files of the Cold listing, in click order; the
\* listing shown may be older than the bucket
Selections(u) ==
  {<<n>> : n \in NamesOf(u)} \cup
  {s \in NamesOf(u) \X NamesOf(u) : s[1] # s[2]}

\* handleReceiveFiles up to its first await; the button is disabled while
\* isReceiving or with nothing selected
handleReceiveFiles(u, sel) ==
  /\ Budget /\ ~batch.isReceiving
  /\ issued' = issued + 1
  /\ batch' = [user |-> u, selectedFiles |-> sel, i |-> 1,
               successfulDownloads |-> <<>>, failedDownloads |-> <<>>,
               isReceiving |-> TRUE, alert |-> "none", error |-> FALSE]
  /\ reply' = NoReply
  /\ UNCHANGED <<accounts, userDocs, token, hot, cold, index, tmp, calls, client>>

\* await receiveFile({ fileName }): downloadFromGCPBucket starts for the name
\* the loop is at (the caller is signed in and the name is not empty)
receiveFile(c) ==
  /\ batch.isReceiving /\ batch.i <= Len(batch.selectedFiles)
  /\ \A d \in Slots : calls[d].via # "batch"
  /\ FreeSlot(c)
  /\ calls' = [calls EXCEPT ![c] =
       [Call("downloadFromGCPBucket", batch.user, batch.selectedFiles[batch.i],
             ExtUrl, "batch", NoUid, "false") EXCEPT !.pc = "download"]]
  /\ reply' = NoReply
  /\ UNCHANGED <<accounts, userDocs, token, hot, cold, index, tmp, issued, batch, client>>

\* after the loop: if (successfulDownloads.length > 0) alert(summary);
\* setSelectedFiles([]); onFilesReceived(); fetchGCPFiles(); finally
\* setIsReceiving(false)
ReceiveSummary ==
  /\ batch.isReceiving /\ batch.i > Len(batch.selectedFiles)
  /\ batch' = [batch EXCEPT
       !.alert = IF Len(batch.successfulDownloads) > 0 THEN "summary" ELSE "none",
       !.isReceiving = FALSE]
  /\ reply' = NoReply
  /\ UNCHANGED <<accounts, userDocs, token, hot, cold, index, tmp, calls, issued, client>>

\* ------------------------------------------------- client writes of the Hot tier
\* FileUpload.handleUpload: uploadBytes(ref(storage, uid/file.name), file)
handleUpload(u, n, b) ==
  /\ Budget
  /\ issued' = issued + 1
  /\ hot' = [hot EXCEPT ![<<u, n>>] = b]
  /\ calls' = Disturb(calls, 0)
  /\ reply' = NoReply
  /\ UNCHANGED <<accounts, userDocs, token, cold, index, tmp, batch, client>>

\* FileList.handleDeleteFiles: deleteObject(ref(storage, uid/fileName))
handleDeleteFiles(u, n) ==
  /\ Budget
  /\ issued' = issued + 1
  /\ hot[<<u, n>>] # None
  /\ hot' = [hot EXCEPT ![<<u, n>>] = None]
  /\ calls' = Disturb(calls, 0)
  /\ reply' = NoReply
  /\ UNCHANGED <<accounts, userDocs, token, cold, index, tmp, batch, client>>

\* ------------------------------------------------- Account Lifecycle Manager

\* checkAdminAuth that looks at request.auth only
checkAdminAuth_AnyUser(call) ==
  IF call.caller = NoAuth THEN "permission-denied" ELSE "ok"

\* checkAdminAuth: throws permission-denied unless request.auth.token.admin
checkAdminAuth(call) ==
  IF call.caller = NoAuth \/ ~call.tok.admin THEN "permission-denied" ELSE "ok"

\* admin.auth().listUsers pages, mapped to {uid, disabled}
UserList == {[uid |-> u, disabled |-> accounts[u].disabled] :
               u \in {v \in Uids : accounts[v].exists}}

\* the order in which the auth backend lists the accounts, and the place of
\* a page token in it
UidOrder == <<"u1", "u2">>
Pos(u) == IF u = NoUid THEN 0 ELSE CHOOSE i \in 1..Len(UidOrder) : UidOrder[i] = u

\* the accounts that listUsers has still to return after pageToken
Remaining(pageToken) ==
  SelectSeq(UidOrder, LAMBDA u : accounts[u].exists /\ Pos(u) > Pos(pageToken))

\* userRecords.forEach(push {uid, email, displayName, disabled})
Pushed(users, page) ==
  users \o [j \in 1..Len(page) |->
             [uid |-> page[j], disabled |-> accounts[page[j]].disabled]]

\* fetchUsers up to its first await: checkAdminAuth
fetchUsers(c, caller) ==
  LET call == Call("fetchUsers", caller, NoName, ExtUrl, "direct", NoUid, "false") IN
  /\ Budget /\ FreeSlot(c)
  /\ issued' = issued + 1
  /\ IF checkAdminAuth(call) # "ok"
       THEN /\ reply' = Reply(call, checkAdminAuth(call), NoData)
            /\ UNCHANGED calls
       ELSE /\ reply' = NoReply
            /\ calls' = [calls EXCEPT ![c] = [call EXCEPT !.pc = "page"]]
  /\ UNCHANGED <<accounts, userDocs, token, hot, cold, index, tmp, batch, client>>

\* ListUsersPage that returns after its first page
ListUsersPage_OnePage(c) ==
  /\ calls[c].op = "fetchUsers" /\ calls[c].pc = "page"
  /\ \E ok \in BOOLEAN :
       IF ok
         THEN LET rest == Remaining(calls[c].pageToken) IN
              \E n \in (IF Len(rest) = 0 THEN {0} ELSE 1..Len(rest)) :
                Return(calls, c, "ok", Pushed(calls[c].users, SubSeq(rest, 1, n)))
         ELSE Return(calls, c, "unknown", NoData)
  /\ UNCHANGED <<accounts, userDocs, token, hot, cold, index, tmp, issued, batch, client>>

\* one turn of do { await listUsers(1000, pageToken); push; pageToken =
\* result.pageToken } while (pageToken): the backend returns the next accounts
\* in its order, as many as it puts on the page, and a page token unless the
\* listing is at its end (a full last page may carry a token too: the page
\* after it is empty); return { success, users } when there is no token
ListUsersPage(c) ==
  /\ calls[c].op = "fetchUsers" /\ calls[c].pc = "page"
  /\ \E ok \in BOOLEAN :
       IF ok
         THEN LET rest == Remaining(calls[c].pageToken) IN
              \E n \in (IF Len(rest) = 0 THEN {0} ELSE 1..Len(rest)),
                 more \in BOOLEAN :
                /\ n < Len(rest) => more
                /\ n = 0 => ~more
                /\ LET users == Pushed(calls[c].users, SubSeq(rest, 1, n)) IN
                   IF more
                     THEN /\ calls' = [calls EXCEPT ![c].users = users,
                                                    ![c].pageToken = rest[n]]
                          /\ reply' = NoReply
                     ELSE Return(calls, c, "ok", users)
         ELSE Return(calls, c, "unknown", NoData)
  /\ UNCHANGED <<accounts, userDocs, token, hot, cold, index, tmp, issued, batch, client>>

\* the shape of resetUserPassword, disableUserAccount, enableUserAccount and
\* deleteUserAccount: checkAdminAuth, the uid check, then one call of the auth
\* backend, which fails for an account that does not exist or for properties
\* it does not accept
Lifecycle(op, caller, uid, accepted, after, data) ==
  LET call == Call(op, caller, NoName, ExtUrl, "direct", uid, "false") IN
  /\ Budget
  /\ issued' = issued + 1
  /\ IF checkAdminAuth(call) # "ok"
       THEN /\ reply' = Reply(call, checkAdminAuth(call), NoData)
            /\ UNCHANGED accounts
       ELSE IF uid = NoUid
         THEN /\ reply' = Reply(call, "invalid-argument", NoData)
              /\ UNCHANGED accounts
         ELSE \E ok \in BOOLEAN :
                IF ok /\ accounts[uid].exists /\ accepted
                  THEN /\ accounts' = [accounts EXCEPT ![uid] = after]
                       /\ reply' = Reply(call, "ok", data)
                  ELSE /\ reply' = Reply(call, "unknown", NoData)
                       /\ UNCHANGED accounts
  /\ UNCHANGED <<userDocs, token, hot, cold, index, tmp, calls, batch, client>>

Targets == Uids \cup {NoUid}
Account(uid) == IF uid \in Uids THEN accounts[uid] ELSE accounts["u1"]

\* newPassword = Math.random().toString(36).slice(-8); updateUser(uid,
\* {password}), which takes a password of six characters or more; the reply
\* carries newPassword in its message
resetUserPassword(caller, uid, random) ==
  LET newPassword == Slice8(random) IN
  Lifecycle("resetUserPassword", caller, uid, Len(newPassword) >= 6,
            [Account(uid) EXCEPT !.password = newPassword], {newPassword})

\* disableUserAccount that also clears the claims of the account
disableUserAccount_Revokes(caller, uid) ==
  Lifecycle("disableUserAccount", caller, uid, TRUE,
            [Account(uid) EXCEPT !.disabled = TRUE, !.claims = NoClaims], NoData)

\* admin.auth().updateUser(uid, { disabled: true })
disableUserAccount(caller, uid) ==
  Lifecycle("disableUserAccount", caller, uid, TRUE,
            [Account(uid) EXCEPT !.disabled = TRUE], NoData)

\* admin.auth().updateUser(uid, { disabled: false })
enableUserAccount(caller, uid) ==
  Lifecycle("enableUserAccount", caller, uid, TRUE,
            [Account(uid) EXCEPT !.disabled = FALSE], NoData)

\* deleteUserAccount that only marks the account and keeps its record
deleteUserAccount_Soft(caller, uid) ==
  Lifecycle("deleteUserAccount", caller, uid, TRUE,
            [Account(uid) EXCEPT !.disabled = TRUE], NoData)

\* admin.auth().deleteUser(uid): the record is gone, and with it its claims
deleteUserAccount(caller, uid) ==
  Lifecycle("deleteUserAccount", caller, uid, TRUE,
            [Account(uid) EXCEPT !.exists = FALSE, !.claims = NoClaims], NoData)

\* ------------------------------------------------------ Access-Grant Issuer
\* grantGCPAccess open only to a caller whose token already has gcpAccess
grantGCPAccess_NeedsAccess(caller) ==
  LET call == Call("grantGCPAccess", caller, NoName, ExtUrl, "direct", NoUid, "false") IN
  /\ Budget
  /\ issued' = issued + 1
  /\ IF caller = NoAuth
       THEN /\ reply' = Reply(call, "unauthenticated", NoData)
            /\ UNCHANGED accounts
       ELSE IF ~call.tok.gcpAccess
         THEN /\ reply' = Reply(call, "permission-denied", NoData)
              /\ UNCHANGED accounts
         ELSE \E ok \in BOOLEAN :
                IF ok /\ accounts[caller].exists
                  THEN /\ accounts' = [accounts EXCEPT ![caller].claims =
                                         [admin |-> FALSE, gcpAccess |-> TRUE]]
                       /\ reply' = Reply(call, "ok", NoData)
                  ELSE /\ reply' = Reply(call, "internal", NoData)
                       /\ UNCHANGED accounts
  /\ UNCHANGED <<userDocs, token, hot, cold, index, tmp, calls, batch, client>>

\* grantGCPAccess: setCustomUserClaims(uid, { gcpAccess: true }) replaces the
\* claims of the caller's account
grantGCPAccess(caller) ==
  LET call == Call("grantGCPAccess", caller, NoName, ExtUrl, "direct", NoUid, "false") IN
  /\ Budget
  /\ issued' = issued + 1
  /\ IF caller = NoAuth
       THEN /\ reply' = Reply(call, "unauthenticated", NoData)
            /\ UNCHANGED accounts
       ELSE \E ok \in BOOLEAN :
              IF ok /\ accounts[caller].exists
                THEN /\ accounts' = [accounts EXCEPT ![caller].claims =
                                       [admin |-> FALSE, gcpAccess |-> TRUE]]
                     /\ reply' = Reply(call, "ok", NoData)
                ELSE /\ reply' = Reply(call, "internal", NoData)
                     /\ UNCHANGED accounts
  /\ UNCHANGED <<userDocs, token, hot, cold, index, tmp, calls, batch, client>>

\* the auth trigger functions.auth.user().onCreate, run when the onCreate event
\* of the account is delivered: without an email it returns; else
\* setCustomUserClaims(uid, { gcpAccess: email.endsWith("@example.com") }); a
\* failure is logged and thrown to the platform
setCustomClaims(uid) ==
  /\ accounts[uid].onCreate = "pending"
  /\ \E hasEmail, isGCPEnabled, ok \in BOOLEAN :
       accounts' = [accounts EXCEPT
         ![uid].onCreate = "done",
         ![uid].claims =
           IF hasEmail /\ ok /\ accounts[uid].exists
             THEN [admin |-> FALSE, gcpAccess |-> isGCPEnabled]
             ELSE @]
  /\ reply' = NoReply
  /\ UNCHANGED <<userDocs, token, hot, cold, index, tmp, calls, issued, batch, client>>

BoolArgs == {"true", "false", "other"}

\* setCustomAdminClaims up to its first await: request.auth, typeof isAdmin,
\* email
setCustomAdminClaims(c, caller, email, isAdmin) ==
  LET call == Call("setCustomAdminClaims", caller, NoName, ExtUrl, "direct",
                   email, isAdmin) IN
  /\ Budget /\ FreeSlot(c)
  /\ issued' = issued + 1
  /\ IF caller = NoAuth
       THEN /\ reply' = Reply(call, "unauthenticated", NoData)
            /\ UNCHANGED calls
       ELSE IF isAdmin \notin {"true", "false"} \/ email = NoUid
         THEN /\ reply' = Reply(call, "invalid-argument", NoData)
              /\ UNCHANGED calls
         ELSE /\ reply' = NoReply
              /\ calls' = [calls EXCEPT ![c] = [call EXCEPT !.pc = "lookup"]]
  /\ UNCHANGED <<accounts, userDocs, token, hot, cold, index, tmp, batch, client>>

\* catch (error) { throw HttpsError("unknown") }
AdminClaimsFail(c) == Return(calls, c, "unknown", NoData)

\* const user = await admin.auth().getUserByEmail(email)
AdminClaimsLookup(c) ==
  /\ calls[c].op = "setCustomAdminClaims" /\ calls[c].pc = "lookup"
  /\ \E ok \in BOOLEAN :
       IF ok /\ accounts[calls[c].target].exists
         THEN /\ calls' = [calls EXCEPT ![c].pc = "claims"]
              /\ reply' = NoReply
         ELSE AdminClaimsFail(c)
  /\ UNCHANGED <<accounts, userDocs, token, hot, cold, index, tmp, issued, batch, client>>

\* await setCustomUserClaims(user.uid, { gcpAccess: true, admin: isAdmin })
AdminClaimsSet(c) ==
  /\ calls[c].op = "setCustomAdminClaims" /\ calls[c].pc = "claims"
  /\ \E ok \in BOOLEAN :
       IF ok /\ accounts[calls[c].target].exists
         THEN /\ accounts' = [accounts EXCEPT ![calls[c].target].claims =
                                [admin |-> (calls[c].flag = "true"),
                                 gcpAccess |-> TRUE]]
              /\ calls' = [calls EXCEPT ![c].pc = "doc"]
              /\ reply' = NoReply
         ELSE /\ AdminClaimsFail(c)
              /\ UNCHANGED accounts
  /\ UNCHANGED <<userDocs, token, hot, cold, index, tmp, issued, batch, client>>

\* AdminClaimsDoc whose set has no { merge: true }: the document is replaced
AdminClaimsDoc_Replace(c) ==
  /\ calls[c].op = "setCustomAdminClaims" /\ calls[c].pc = "doc"
  /\ \E ok \in BOOLEAN :
       IF ok
         THEN /\ userDocs' = [userDocs EXCEPT ![calls[c].target] =
                                [exists |-> TRUE,
                                 isAdmin |-> (calls[c].flag = "true"),
                                 other |-> None]]
              /\ Return(calls, c, "ok", NoData)
         ELSE /\ AdminClaimsFail(c)
              /\ UNCHANGED userDocs
  /\ UNCHANGED <<accounts, token, hot, cold, index, tmp, issued, batch, client>>

\* await firestore users/{uid}.set({email, isAdmin, gcpAccess, createdAt},
\* {merge: true}); return { success: true }
AdminClaimsDoc(c) ==
  /\ calls[c].op = "setCustomAdminClaims" /\ calls[c].pc = "doc"
  /\ \E ok \in BOOLEAN :
       IF ok
         THEN /\ userDocs' = [userDocs EXCEPT ![calls[c].target] =
                                [userDocs[calls[c].target] EXCEPT
                                   !.exists = TRUE,
                                   !.isAdmin = (calls[c].flag = "true")]]
              /\ Return(calls, c, "ok", NoData)
         ELSE /\ AdminClaimsFail(c)
              /\ UNCHANGED userDocs
  /\ UNCHANGED <<accounts, token, hot, cold, index, tmp, issued, batch, client>>

\* user.getIdToken(true): the session token is re-issued with the account's
\* current claims
RefreshToken(u) ==
  /\ accounts[u].exists /\ ~accounts[u].disabled
  /\ token[u] # accounts[u].claims
  /\ token' = [token EXCEPT ![u] = accounts[u].claims]
  /\ reply' = NoReply
  /\ UNCHANGED <<accounts, userDocs, hot, cold, index, tmp, calls, issued, batch, client>>

\* ----------------------------------------------------------- the web client
backend == <<accounts, userDocs, token, hot, cold, index, tmp, calls, reply, issued,
             batch>>

\* what a route element evaluates to: a page, or <Navigate to=... />
Page(name) == [kind |-> "page", to |-> name]
Navigate(to) == [kind |-> "navigate", to |-> to]

\* ProtectedRoute without the adminOnly test
ProtectedRoute_AnyUser(adminOnly, children) ==
  IF client.loading THEN Page("Loading")
  ELSE IF client.currentUser = NoAuth THEN Navigate("/login")
  ELSE children

\* ProtectedRoute.tsx
ProtectedRoute(adminOnly, children) ==
  IF client.loading THEN Page("Loading")
  ELSE IF client.currentUser = NoAuth THEN Navigate("/login")
  ELSE IF adminOnly /\ ~client.isAdmin THEN Navigate("/main")
  ELSE children

\* App.tsx RootRedirect
RootRedirect ==
  IF client.loading THEN Page("Loading")
  ELSE IF client.currentUser = NoAuth THEN Navigate("/login")
  ELSE Navigate(IF client.isAdmin THEN "/admin" ELSE "/main")

\* App.tsx <Routes>: the element of the route that matches the location
Routes(path) ==
  CASE path = "/login" -> Page("Login")
    [] path = "/signup" -> Page("Signup")
    [] path = "/main" -> ProtectedRoute(FALSE, Page("Main"))
    [] path = "/admin" -> ProtectedRoute(TRUE, Page("Adminpage"))
    [] path = "/" -> RootRedirect
    [] OTHER -> Page("NotFound")

\* what the router shows now
Rendered == Routes(client.path)

ClientStep(next) == client' = next /\ UNCHANGED backend

\* a page load at a typed URL: the application starts over, the SDK restores
\* the signed-in user it has persisted
Open(path) == ClientStep(Mounted(client.authUser, path))

\* a rendered <Navigate to=... /> changes the location
Redirect ==
  /\ Rendered.kind = "navigate"
  /\ ClientStep([client EXCEPT !.path = Rendered.to, !.loginAttempted = FALSE])

\* fetchAdminStatus: getDoc(users/{uid}); exists() && data().isAdmin === true,
\* false when the read fails
AdminStatus(user, ok) == ok /\ userDocs[user].exists /\ userDocs[user].isAdmin

\* the listener of onAuthStateChanged up to its await: setLoading(true);
\* setCurrentUser(user); without a user setIsAdmin(false); setLoading(false).
\* Two callbacks for the same user at the same position count as one.
AuthStateChanged ==
  /\ client.pending
  /\ ClientStep(
       IF client.authUser = NoAuth
         THEN [client EXCEPT !.pending = FALSE, !.currentUser = NoAuth,
                             !.isAdmin = FALSE, !.loading = FALSE]
         ELSE [client EXCEPT !.pending = FALSE, !.currentUser = client.authUser,
                             !.loading = TRUE,
                             !.listeners = @ \cup {[user |-> client.authUser,
                                                    pc |-> "getDoc"]}])

\* await fetchAdminStatus(user) in the listener: setIsAdmin
ListenerGetDoc(l) ==
  /\ l \in client.listeners /\ l.pc = "getDoc"
  /\ \E ok \in BOOLEAN :
       ClientStep([client EXCEPT
         !.isAdmin = AdminStatus(l.user, ok),
         !.listeners = (@ \ {l}) \cup {[l EXCEPT !.pc = "done"]}])

\* the listener after its await: setLoading(false)
ListenerDone(l) ==
  /\ l \in client.listeners /\ l.pc = "done"
  /\ ClientStep([client EXCEPT !.loading = FALSE, !.listeners = @ \ {l}])

\* Login.handleLogin -> AuthProvider.login up to its first await:
\* setLoading(true); signInWithEmailAndPassword is under way
login(u) ==
  /\ Rendered = Page("Login") /\ client.loginPc = "idle"
  /\ ClientStep([client EXCEPT !.loading = TRUE, !.loginPc = "signIn",
                               !.loginUser = u])

\* signInWithEmailAndPassword settles: signed in, const user = auth.currentUser
\* and fetchAdminStatus(user) starts; or it rejects, finally setLoading(false)
\* and the Login page shows the error
LoginSignIn ==
  /\ client.loginPc = "signIn"
  /\ \E ok \in BOOLEAN :
       LET u == client.loginUser IN
       IF ok /\ accounts[u].exists /\ ~accounts[u].disabled
         THEN ClientStep([client EXCEPT !.authUser = u,
                                        !.pending = @ \/ client.authUser # u,
                                        !.loginPc = "getDoc"])
         ELSE ClientStep([client EXCEPT !.loading = FALSE, !.loginPc = "idle"])

\* login after fetchAdminStatus: setIsAdmin; finally setLoading(false);
\* handleLogin goes on with setLoginAttempted(true)
LoginGetDoc ==
  /\ client.loginPc = "getDoc"
  /\ \E ok \in BOOLEAN :
       ClientStep([client EXCEPT
         !.isAdmin = AdminStatus(client.loginUser, ok),
         !.loading = FALSE, !.loginPc = "idle",
         !.loginAttempted = (client.path = "/login")])

\* the effect of Login: if (!loading && loginAttempted) navigate(isAdmin ?
\* "/admin" : "/main")
LoginRedirect ==
  /\ client.path = "/login" /\ client.loginAttempted /\ ~client.loading
  /\ ClientStep([client EXCEPT !.path = IF client.isAdmin THEN "/admin" ELSE "/main",
                               !.loginAttempted = FALSE])

\* handleLogout of Main and Adminpage -> AuthProvider.logout up to its await:
\* setLoading(true)
logout ==
  /\ Rendered \in {Page("Main"), Page("Adminpage")} /\ client.logoutPc = "idle"
  /\ ClientStep([client EXCEPT !.loading = TRUE, !.logoutPc = "signOut"])

\* signOut settles: setCurrentUser(null); setIsAdmin(false), or the error is
\* logged; finally setLoading(false); handleLogout goes on with
\* navigate("/login")
LogoutSignOut ==
  /\ client.logoutPc = "signOut"
  /\ \E ok \in BOOLEAN :
       IF ok
         THEN ClientStep([client EXCEPT
                !.authUser = NoAuth, !.pending = @ \/ client.authUser # NoAuth,
                !.currentUser = NoAuth, !.isAdmin = FALSE, !.loading = FALSE,
                !.logoutPc = "idle", !.path = "/login", !.loginAttempted = FALSE])
         ELSE ClientStep([client EXCEPT
                !.loading = FALSE, !.logoutPc = "idle", !.path = "/login",
                !.loginAttempted = FALSE])

\* the account whose email is the one Main.handleSetAdmin names
BootstrapUid == "u2"

\* Main.handleSetAdmin: for the bootstrap email setDoc(users/{uid}, { isAdmin:
\* true }, { merge: true }), which may be rejected; for any other email an
\* alert and nothing else
handleSetAdmin ==
  /\ Rendered = Page("Main")
  /\ \E ok \in BOOLEAN :
       userDocs' =
         IF client.currentUser = BootstrapUid /\ ok
           THEN [userDocs EXCEPT ![BootstrapUid].exists = TRUE,
                                 ![BootstrapUid].isAdmin = TRUE]
           ELSE userDocs
  /\ UNCHANGED <<accounts, token, hot, cold, index, tmp, calls, reply, issued, batch,
                 client>>

ListenerSteps == [user : Uids, pc : {"getDoc", "done"}]

ClientNext ==
  \/ \E p \in Paths : Open(p)
  \/ Redirect
  \/ AuthStateChanged
  \/ \E l \in ListenerSteps : ListenerGetDoc(l)
  \/ \E l \in ListenerSteps : ListenerDone(l)
  \/ \E u \in Uids : login(u)
  \/ LoginSignIn
  \/ LoginGetDoc
  \/ LoginRedirect
  \/ logout
  \/ LogoutSignOut

\* ------------------------------------------------------------------- Next
\* The tier operations read and write hot, cold, index, tmp and the call slots;
\* the account operations read and write accounts, userDocs, token and the call
\* slots.  Neither family reads what the other writes (no tier handler looks at
\* a claim), so each family is also explored on its own.
TierNext ==
  \/ \E c \in Slots, caller \in Uids :
     \E n \in NamesOf(caller), owner \in Uids \ {caller} :
       uploadToGCPBucket(c, caller, n, HotUrl(owner, "f1"), "direct")
  \/ \E c \in Slots, caller \in Callers :
     \E n \in NamesOf(caller) :
       uploadToGCPBucket(c, caller, n, ExtUrl, "direct")
  \/ \E c \in Slots, u \in Uids :
     \E n \in NamesOf(u) :
       uploadToGCPBucket(c, u, n, HotUrl(u, n), "move")
  \/ \E c \in Slots : UploadFetch(c)
  \/ \E c \in Slots : UploadStage(c)
  \/ \E c \in Slots : UploadCold(c)
  \/ \E c \in Slots : UploadIndex(c)
  \/ \E c \in Slots : MoveDeleteHot(c)
  \/ \E c \in Slots, caller \in Callers :
     \E n \in NamesOf(caller) \cup {NoName} :
       downloadFromGCPBucket(c, caller, n)
  \/ \E c \in Slots : DownloadRead(c)
  \/ \E c \in Slots : DownloadSave(c)
  \/ \E c \in Slots : DownloadDeleteCold(c)
  \/ \E c \in Slots : DownloadDeleteIndex(c)
  \/ \E caller \in Callers : listGCPFiles(caller)
  \/ \E u \in Uids : \E n \in NamesOf(u), b \in UploadBytes : handleUpload(u, n, b)
  \/ \E u \in Uids : \E n \in NamesOf(u) : handleDeleteFiles(u, n)

AccountNext ==
  \/ \E c \in Slots, caller \in Callers : fetchUsers(c, caller)
  \/ \E c \in Slots : ListUsersPage(c)
  \/ \E caller \in Callers, uid \in Targets, r \in RandomStrings :
       resetUserPassword(caller, uid, r)
  \/ \E caller \in Callers, uid \in Targets : disableUserAccount(caller, uid)
  \/ \E caller \in Callers, uid \in Targets : enableUserAccount(caller, uid)
  \/ \E caller \in Callers, uid \in Targets : deleteUserAccount(caller, uid)
  \/ \E caller \in Callers : grantGCPAccess(caller)
  \/ \E c \in Slots, caller \in Callers, email \in Targets, a \in BoolArgs :
       setCustomAdminClaims(c, caller, email, a)
  \/ \E c \in Slots : AdminClaimsLookup(c)
  \/ \E c \in Slots : AdminClaimsSet(c)
  \/ \E c \in Slots : AdminClaimsDoc(c)
  \/ \E u \in Uids : RefreshToken(u)

Next == TierNext \/ AccountNext \/ ClientNext

Spec == Init /\ [][Next]_vars
TierSpec == Init /\ [][TierNext]_vars
AccountSpec == Init /\ [][AccountNext]_vars

\* The batch retrieve of GCPBucketList next to the single retrieves of another
\* session of the same or another account.
BatchNext ==
  \/ \E u \in Uids : \E sel \in Selections(u) : handleReceiveFiles(u, sel)
  \/ \E c \in Slots : receiveFile(c)
  \/ ReceiveSummary
  \/ \E c \in Slots, caller \in Uids :
     \E n \in NamesOf(caller) :
       downloadFromGCPBucket(c, caller, n)
  \/ \E c \in Slots : DownloadRead(c)
  \/ \E c \in Slots : DownloadSave(c)
  \/ \E c \in Slots : DownloadDeleteCold(c)
  \/ \E c \in Slots : DownloadDeleteIndex(c)

BatchSpec == Init /\ [][BatchNext]_vars

\* The account operations next to the calls of uploadToGCPBucket and
\* downloadFromGCPBucket whose request data lacks a field.
ArgsNext ==
  \/ AccountNext
  \/ \E c \in Slots, caller \in Uids :
       uploadToGCPBucket(c, caller, NoName, ExtUrl, "direct")
  \/ \E c \in Slots, caller \in Uids :
     \E n \in NamesOf(caller) :
       uploadToGCPBucket(c, caller, n, NoUrl, "direct")
  \/ \E c \in Slots : UploadFetch(c)
  \/ \E c \in Slots, caller \in Uids : downloadFromGCPBucket(c, caller, NoName)

ArgsSpec == Init /\ [][ArgsNext]_vars

\* Archives (through FileList.moveToGCPBucket, or by a call of uploadToGCPBucket
\* with the URL of the caller's own Hot object) and retrieves issued one after
\* the other: an operation starts when no other is in flight.  No upload to the
\* Hot tier and no delete by the user.
NoneInFlight == \A c \in Slots : ~InFlight(c)

SeqNext ==
  \/ \E c \in Slots, u \in Uids :
     \E n \in NamesOf(u), via \in {"direct", "move"} :
       NoneInFlight /\ uploadToGCPBucket(c, u, n, HotUrl(u, n), via)
  \/ \E c \in Slots : UploadFetch(c)
  \/ \E c \in Slots : UploadStage(c)
  \/ \E c \in Slots : UploadCold(c)
  \/ \E c \in Slots : UploadIndex(c)
  \/ \E c \in Slots : MoveDeleteHot(c)
  \/ \E c \in Slots, u \in Uids :
     \E n \in NamesOf(u) :
       NoneInFlight /\ downloadFromGCPBucket(c, u, n)
  \/ \E c \in Slots : DownloadRead(c)
  \/ \E c \in Slots : DownloadSave(c)
  \/ \E c \in Slots : DownloadDeleteCold(c)
  \/ \E c \in Slots : DownloadDeleteIndex(c)

SeqSpec == Init /\ [][SeqNext]_vars

\* The archives and retrieves of SeqNext issued by sessions that do not wait
\* for one another.  No upload to the Hot tier and no delete by the user.
RaceNext ==
  \/ \E c \in Slots, u \in Uids :
     \E n \in NamesOf(u), via \in {"direct", "move"} :
       uploadToGCPBucket(c, u, n, HotUrl(u, n), via)
  \/ \E c \in Slots : UploadFetch(c)
  \/ \E c \in Slots : UploadStage(c)
  \/ \E c \in Slots : UploadCold(c)
  \/ \E c \in Slots : UploadIndex(c)
  \/ \E c \in Slots : MoveDeleteHot(c)
  \/ \E c \in Slots, u \in Uids :
     \E n \in NamesOf(u) :
       downloadFromGCPBucket(c, u, n)
  \/ \E c \in Slots : DownloadRead(c)
  \/ \E c \in Slots : DownloadSave(c)
  \/ \E c \in Slots : DownloadDeleteCold(c)
  \/ \E c \in Slots : DownloadDeleteIndex(c)

RaceSpec == Init /\ [][RaceNext]_vars

\* A new account whose onCreate event is still to be delivered, next to the
\* calls that set claims.
TriggerNext ==
  \/ \E uid \in Uids : setCustomClaims(uid)
  \/ \E caller \in Uids : grantGCPAccess(caller)
  \/ \E c \in Slots, caller \in Uids, email \in Uids, a \in {"true", "false"} :
       setCustomAdminClaims(c, caller, email, a)
  \/ \E c \in Slots : AdminClaimsLookup(c)
  \/ \E c \in Slots : AdminClaimsSet(c)
  \/ \E c \in Slots : AdminClaimsDoc(c)
  \/ \E u \in Uids : RefreshToken(u)

TriggerSpec == Init /\ [][TriggerNext]_vars

\* Calls of uploadToGCPBucket alone, with every step that can be taken taken in
\* the end: an awaited backend call settles, a handler whose await has settled
\* goes on.
ArchiveNext ==
  \/ \E c \in Slots, caller \in Uids :
     \E n \in NamesOf(caller) :
     \E url \in {ExtUrl, HotUrl(caller, n)} :
       uploadToGCPBucket(c, caller, n, url, "direct")
  \/ \E c \in Slots : UploadFetch(c)
  \/ \E c \in Slots : UploadStage(c)
  \/ \E c \in Slots : UploadCold(c)
  \/ \E c \in Slots : UploadIndex(c)

ArchiveLiveSpec == Init /\ [][ArchiveNext]_vars /\ WF_vars(ArchiveNext)

\* One browser session against accounts and users records that stay as they
\* are.
ClientSpec == Init /\ [][ClientNext]_vars

\* The browser session of ClientSpec with the bootstrap button of Main.
BootstrapNext == ClientNext \/ handleSetAdmin

BootstrapSpec == Init /\ [][BootstrapNext]_vars

\* every awaited call of a backend settles, and the client goes on when it has:
\* a step that stays possible is taken
BatchLiveSpec == BatchSpec /\ WF_vars(BatchNext)

\* =================================================================== claims
\* the step just taken was a step of the call in slot c
StepOf(c) == InFlight(c) /\ calls'[c].pc # calls[c].pc

\* the reply of a call that no other operation overlapped with a write
Returned(op, code) ==
  reply.call.op = op /\ reply.code = code /\ reply.call.quiet

BothTiers(k) == hot[k] # None /\ cold[k] # None

\* the call's fileUrl is the URL of the caller's own Hot object of that name
OwnHotUrl(call) == call.url = HotUrl(call.caller, call.name)

\* C1 (as stated): once uploadToGCPBucket has returned success, the object is
\* absent from the Hot tier, present in the Cold tier at {account}/{fileName},
\* and the index entry exists.
C1_ArchivePostAsStated ==
  (Returned("uploadToGCPBucket", "ok") /\ OwnHotUrl(reply.call)) =>
    /\ hot[Key(reply.call)] = None
    /\ cold[Key(reply.call)] # None
    /\ index[Key(reply.call)]

\* C1 (amended): once uploadToGCPBucket has returned success, the object is
\* present in the Cold tier at {account}/{fileName} and the index entry exists;
\* the Hot object is absent once the deleteObject that FileList.moveToGCPBucket
\* issues after that success has succeeded too.
C1_ArchivePost ==
  /\ (Returned("uploadToGCPBucket", "ok") /\ OwnHotUrl(reply.call)) =>
       /\ cold[Key(reply.call)] # None
       /\ index[Key(reply.call)]
  /\ Returned("moveToGCPBucket", "ok") =>
       /\ hot[Key(reply.call)] = None
       /\ cold[Key(reply.call)] # None
       /\ index[Key(reply.call)]

\* an archive made through FileList ran to its end: function and Hot delete
C1_Witness ==
  /\ Returned("moveToGCPBucket", "ok")
  /\ hot[Key(reply.call)] = None /\ cold[Key(reply.call)] = "b1"

C3_AtMostOneTier ==
  [][\A c \in Slots :
       (/\ StepOf(c) /\ ~BothTiers(Key(calls[c]))
        /\ \/ calls[c].op = "downloadFromGCPBucket"
           \/ calls[c].op \in {"uploadToGCPBucket", "moveToGCPBucket"}
                /\ OwnHotUrl(calls[c]))
         => ~(hot'[Key(calls[c])] # None /\ cold'[Key(calls[c])] # None)]_vars

\* C4: an Account Lifecycle call by an authenticated caller whose token lacks
\* admin=true returns permission-denied and leaves every account record
\* unchanged.
C4_LifecycleDenied ==
  [][(reply'.call.op \in LifecycleOps /\ reply'.call.caller # NoAuth
        /\ ~reply'.call.tok.admin)
      => (reply'.code = "permission-denied" /\ accounts' = accounts)]_vars

C4_Witness ==
  /\ reply.call.op = "deleteUserAccount" /\ reply.call.caller = "u2"
  /\ ~reply.call.tok.admin /\ reply.call.target = "u1"
  /\ reply.code = "permission-denied" /\ accounts["u1"].exists

\* C5: a setCustomAdminClaims call by an authenticated caller whose token lacks
\* admin=true is denied: no step of it changes an account's claims or a
\* users/{uid} record, and it never ends in success.
C5_ElevationDenied ==
  [][/\ \A c \in Slots :
          (StepOf(c) /\ calls[c].op = "setCustomAdminClaims" /\ ~calls[c].tok.admin)
            => (accounts' = accounts /\ userDocs' = userDocs)
     /\ (reply'.call.op = "setCustomAdminClaims" /\ reply'.call.caller # NoAuth
           /\ ~reply'.call.tok.admin) => reply'.code # "ok"]_vars

\* C6: uploadToGCPBucket, downloadFromGCPBucket and listGCPFiles called by an
\* authenticated caller whose claims lack gcpAccess=true are denied: no step
\* of such a call writes the Cold tier, the Hot tier or the index, and the call
\* never ends in success.
C6_TierAccessDenied ==
  [][/\ \A c \in Slots :
          (StepOf(c) /\ calls[c].op \in TierOps /\ ~calls[c].tok.gcpAccess)
            => stores' = stores
     /\ (reply'.call.op \in TierOps /\ reply'.call.caller # NoAuth
           /\ ~reply'.call.tok.gcpAccess) => reply'.code # "ok"]_vars

\* C7: an uploadToGCPBucket call whose fileUrl is not the caller's own Hot
\* object {callerId}/{fileName} writes nothing to the Cold tier or the index
\* and never succeeds, so a Cold object written by an archive holds the bytes
\* of the caller's Hot object of that name.
C7_OwnHotReferenceOnly ==
  [][/\ \A c \in Slots :
          (StepOf(c) /\ calls[c].op = "uploadToGCPBucket" /\ ~OwnHotUrl(calls[c]))
            => (cold' = cold /\ index' = index)
     /\ (reply'.call.op = "uploadToGCPBucket" /\ reply'.call.caller # NoAuth
           /\ ~OwnHotUrl(reply'.call)) => reply'.code # "ok"]_vars

\* C8: every key that a tier call of account A reads, writes or deletes is in
\* A's namespace: the bytes its archive has fetched from the Hot tier come from
\* a key of A, and no step of it changes an object or index entry of another
\* account.
C8_NoCrossUserAccess ==
  [][\A c \in Slots :
       (StepOf(c) /\ calls[c].op \in TierOps \cup {"moveToGCPBucket"}) =>
         /\ (calls'[c].bytes # None /\ calls'[c].url.kind = "hot")
              => calls'[c].url.owner = calls'[c].caller
         /\ \A k \in Keys : k[1] # calls[c].caller =>
              (hot'[k] = hot[k] /\ cold'[k] = cold[k] /\ index'[k] = index[k])]_vars

\* C9: every operation called with no or an invalid session token fails with
\* unauthenticated and changes nothing; permission-denied goes only to an
\* authenticated caller.
C9_UnauthenticatedCode ==
  [][(reply'.code # "none" /\ reply'.call.caller = NoAuth) =>
       /\ reply'.code = "unauthenticated"
       /\ UNCHANGED <<accounts, userDocs, hot, cold, index>>]_vars

\* C10: an archive call that fails at the fetch or at the Cold upload returns
\* an error and has changed nothing: none of its steps up to and including the
\* failing one writes the Hot tier, the Cold tier or the index.
C10_ArchiveAbort ==
  [][\A c \in Slots :
       (StepOf(c) /\ calls[c].op = "uploadToGCPBucket") =>
         /\ calls[c].pc \in {"fetch", "stage"} => stores' = stores
         /\ (calls[c].pc \in {"fetch", "cold"} /\ ~InFlight(c)') =>
              /\ stores' = stores
              /\ reply'.call.op = "uploadToGCPBucket"
              /\ reply'.code = "internal"]_vars

\* the Cold upload of an archive failed; the Hot object is still there
C10_Witness ==
  /\ reply.call.op = "uploadToGCPBucket" /\ reply.call.pc = "cold"
  /\ reply.code = "internal" /\ reply.call.quiet
  /\ hot[Key(reply.call)] # None /\ cold[Key(reply.call)] = None
  /\ ~index[Key(reply.call)]

\* the steps of slot c that belong to an archive made with the caller's own
\* Hot object, not overlapped by another operation's write
OwnArchiveStep(c) ==
  /\ StepOf(c) /\ calls[c].op = "uploadToGCPBucket"
  /\ OwnHotUrl(calls[c]) /\ calls[c].quiet

\* step of slot c changes the Cold tier and the index at most at the call's key
OnlyOwnKey(c) ==
  \A k \in Keys \ {Key(calls[c])} : cold'[k] = cold[k] /\ index'[k] = index[k]

\* C11: when the index write of an archive fails after its Cold upload
\* succeeded, the caller gets an error, the object is in both tiers and the
\* failed write has added no index entry; an archive re-issued in that state
\* that succeeds ends as a single successful archive does: the one Cold object
\* at {account}/{fileName} holds the bytes archived, the one index entry
\* exists, and no step of it has touched another Cold key or index entry.
C11_IndexWriteFailureRetry ==
  [][\A c \in Slots : OwnArchiveStep(c) =>
       /\ OnlyOwnKey(c)
       /\ (calls[c].pc = "index" /\ reply'.code # "ok") =>
            /\ reply'.call = calls[c] /\ reply'.code = "internal"
            /\ hot'[Key(calls[c])] # None
            /\ cold'[Key(calls[c])] = calls[c].bytes
            /\ index' = index
       /\ (calls[c].pc = "index" /\ reply'.code = "ok") =>
            /\ hot'[Key(calls[c])] # None
            /\ cold'[Key(calls[c])] = calls[c].bytes
            /\ index'[Key(calls[c])]]_vars

\* an archive re-issued after a failed index write has succeeded
C11_Witness ==
  /\ Returned("uploadToGCPBucket", "ok") /\ OwnHotUrl(reply.call)
  /\ reply.call.orphan /\ Key(reply.call) = <<"u1", "f1">>
  /\ hot[Key(reply.call)] = "b1" /\ cold[Key(reply.call)] = "b1"
  /\ index[Key(reply.call)]

\* the Hot delete of a FileList archive has just failed: the archive ended with
\* the Hot object still there, and no other operation wrote during it
HotDeleteFailed ==
  /\ reply.call.op = "moveToGCPBucket" /\ reply.call.quiet
  /\ hot[Key(reply.call)] # None

\* C12 (as stated): when the Hot delete of an archive fails after the index
\* entry was written, the object is in both tiers with an index entry for the
\* Cold copy, and the caller is not told of a failure.
C12_HotDeleteFailureAsStated ==
  HotDeleteFailed =>
    /\ cold[Key(reply.call)] = reply.call.bytes
    /\ index[Key(reply.call)]
    /\ reply.code = "ok"

\* C12 (amended): when the Hot delete of an archive fails after the index
\* entry was written, the object is in both tiers with an index entry for the
\* Cold copy, and the caller is told: moveToGCPBucket ends in its catch, which
\* sets the error shown to the user.
C12_HotDeleteFailure ==
  HotDeleteFailed =>
    /\ cold[Key(reply.call)] = reply.call.bytes
    /\ index[Key(reply.call)]
    /\ reply.code = "client-error"

C12_Witness ==
  /\ HotDeleteFailed /\ reply.code = "client-error"
  /\ Key(reply.call) = <<"u1", "f1">>
  /\ hot[Key(reply.call)] = "b1" /\ cold[Key(reply.call)] = "b1"
  /\ index[Key(reply.call)]

\* the object of key k is archived: in the Cold tier with its index entry, and
\* gone from the Hot tier
Archived(k) == hot[k] = None /\ cold[k] # None /\ index[k]

\* C13: an archive issued again for the same (account, fileName) after the
\* first has fully committed fails at the Hot source, at its first step, and is
\* a no-op: the one Cold object at {account}/{fileName} and the one index
\* entry are there and unchanged, and nothing else in the tiers or the index
\* has changed.
C13_SecondArchiveNoOp ==
  [][\A c \in Slots :
       (OwnArchiveStep(c) /\ calls[c].pc = "fetch" /\ Archived(Key(calls[c]))) =>
         /\ ~InFlight(c)'
         /\ reply'.call = calls[c] /\ reply'.code \notin {"ok", "none"}
         /\ stores' = stores
         /\ cold'[Key(calls[c])] # None /\ index'[Key(calls[c])]]_vars

\* u1/f1 was archived by a first call, Hot delete included, and a second
\* archive of it has failed
C13_Witness ==
  /\ reply.call.op = "uploadToGCPBucket" /\ reply.call.pc = "fetch"
  /\ OwnHotUrl(reply.call) /\ reply.call.quiet /\ reply.code = "internal"
  /\ Key(reply.call) = <<"u1", "f1">> /\ Archived(<<"u1", "f1">>)
  /\ cold[<<"u1", "f1">>] = "b1"

Range(s) == {s[j] : j \in 1..Len(s)}

\* the batch retrieve has run to its end
BatchDone == ~batch.isReceiving /\ batch.selectedFiles # <<>>

\* the step just taken ended the retrieve call that the batch made from slot c
ItemEnds(c) == calls[c].via = "batch" /\ calls'[c].op = "none"

\* the names of the selection up to the loop position are shared out between
\* the two lists, each in exactly one
Accounted ==
  /\ Range(batch.successfulDownloads) \cup Range(batch.failedDownloads)
       = {batch.selectedFiles[j] : j \in 1..(batch.i - 1)}
  /\ Range(batch.successfulDownloads) \cap Range(batch.failedDownloads) = {}
  /\ Len(batch.successfulDownloads) + Len(batch.failedDownloads) = batch.i - 1

\* C14: in a batch retrieve the failure of one name does not keep the names
\* after it from being attempted and completed: the call of each name ends by
\* putting that name in the succeeded list if it returned success and in the
\* failed list otherwise, the loop goes on to the next name either way, the
\* batch always runs to its end, and at its end every requested name is in
\* exactly one of the two lists.
C14_BatchItemsIndependent ==
  /\ [](batch.i > 0 => Accounted)
  /\ [](BatchDone => batch.i = Len(batch.selectedFiles) + 1)
  /\ [][\A c \in Slots : ItemEnds(c) =>
          /\ calls[c].name = batch.selectedFiles[batch.i]
          /\ batch'.i = batch.i + 1 /\ batch'.isReceiving
          /\ IF reply'.call = calls[c] /\ reply'.code = "ok"
               THEN /\ batch'.successfulDownloads
                         = Append(batch.successfulDownloads, calls[c].name)
                    /\ batch'.failedDownloads = batch.failedDownloads
               ELSE /\ batch'.failedDownloads
                         = Append(batch.failedDownloads, calls[c].name)
                    /\ batch'.successfulDownloads = batch.successfulDownloads]_vars
  /\ (batch.isReceiving ~> BatchDone)

\* u1 asked for f1, which is not in the Cold tier, and then f2: f1 failed, and
\* f2 was retrieved after it
C14_Witness ==
  /\ BatchDone /\ batch.user = "u1" /\ batch.selectedFiles = <<"f1", "f2">>
  /\ batch.failedDownloads = <<"f1">> /\ batch.successfulDownloads = <<"f2">>
  /\ hot[<<"u1", "f2">>] = "b1" /\ cold[<<"u1", "f2">>] = None

\* C15: every batch retrieve, a batch in which every name fails included, ends
\* with the aggregate message that counts the succeeded and the failed names
\* shown to the caller, and a failed name never sets the error of the batch.
C15_BatchAggregateMessage ==
  /\ BatchDone => batch.alert = "summary"
  /\ ~batch.error

\* C16: a retrieve issued for a name with no object at Cold key
\* {account}/{fileName}, as after an earlier retrieve of it, fails with a
\* NotFound-class error at its first step and changes nothing: the Hot object,
\* the Cold tier and the index are as before the call.
C16_RetrieveAgainNotFound ==
  [][\A c \in Slots :
       (/\ StepOf(c) /\ calls[c].op = "downloadFromGCPBucket"
        /\ calls[c].pc = "download" /\ cold[Key(calls[c])] = None) =>
         /\ ~InFlight(c)'
         /\ reply'.call = calls[c] /\ reply'.code = "not-found"
         /\ stores' = stores]_vars

\* an archive or a retrieve of key k is in progress
InProgress(k) ==
  \E c \in Slots :
    /\ calls[c].op \in {"uploadToGCPBucket", "moveToGCPBucket",
                        "downloadFromGCPBucket"}
    /\ Key(calls[c]) = k

\* C17: whenever no archive or retrieve of (account, fileName) is in progress,
\* its index entry exists if and only if an object is at Cold key
\* {account}/{fileName}; an entry appears only in the step that commits an
\* archive of that key and disappears only in the step that commits a retrieve
\* of it.
C17_IndexConsistency ==
  /\ [](\A k \in Keys : ~InProgress(k) => (index[k] <=> cold[k] # None))
  /\ [][\A k \in Keys :
          /\ (~index[k] /\ index'[k]) =>
               (reply'.call.op = "uploadToGCPBucket" /\ Key(reply'.call) = k
                  /\ reply'.code = "ok")
          /\ (index[k] /\ ~index'[k]) =>
               (reply'.call.op = "downloadFromGCPBucket" /\ Key(reply'.call) = k
                  /\ reply'.code = "ok")]_vars

\* C18: a listGCPFiles call that succeeds returns exactly the names that have
\* an object under {callerId}/ in the Cold bucket at the time of the call,
\* whatever the index holds: an index entry without an object adds no name and
\* an object without an index entry is listed.
C18_ListingFromBucket ==
  (reply.call.op = "listGCPFiles" /\ reply.code = "ok") =>
    \A n \in Names :
      n \in reply.data <=>
        (<<reply.call.caller, n>> \in Keys /\ cold[<<reply.call.caller, n>>] # None)

\* u1 lists after an archive of u1/f1 whose index write failed: f1 is listed
\* though it has no index entry
C18_Witness ==
  /\ reply.call.op = "listGCPFiles" /\ reply.code = "ok"
  /\ reply.call.caller = "u1" /\ reply.data = {"f1", "f2"}
  /\ ~index[<<"u1", "f1">>] /\ index[<<"u1", "f2">>]

\* the step just taken was a grantGCPAccess call of an authenticated caller
\* that returned code
Granted(code) ==
  /\ reply'.call.op = "grantGCPAccess" /\ reply'.call.caller # NoAuth
  /\ reply'.code = code

\* C19: grantGCPAccess is open to every authenticated caller, with or without
\* gcpAccess in the token: it is never refused (it ends in success, or in
\* internal when the auth backend rejects the write), a success leaves
\* gcpAccess=true in the caller's claims, and it is idempotent: a success on
\* claims that a grant has left, or right after a success of the same caller,
\* leaves the claims as they were.
C19_SelfGrantIdempotent ==
  [][/\ (reply'.call.op = "grantGCPAccess" /\ reply'.call.caller # NoAuth) =>
          reply'.code \in {"ok", "internal"}
     /\ Granted("internal") => accounts' = accounts
     /\ Granted("ok") =>
          /\ accounts'[reply'.call.caller].claims.gcpAccess
          /\ \A u \in Uids \ {reply'.call.caller} : accounts'[u] = accounts[u]
          /\ (accounts[reply'.call.caller].claims = [admin |-> FALSE, gcpAccess |-> TRUE]
                => accounts' = accounts)
          /\ (reply.call.op = "grantGCPAccess" /\ reply.code = "ok"
                /\ reply.call.caller = reply'.call.caller) => accounts' = accounts]_vars

\* u2, whose token had no gcpAccess, has granted itself access, refreshed the
\* token and granted again
C19_Witness ==
  /\ reply.call.op = "grantGCPAccess" /\ reply.code = "ok"
  /\ reply.call.caller = "u2" /\ reply.call.tok = [admin |-> FALSE, gcpAccess |-> TRUE]
  /\ accounts["u2"].claims = [admin |-> FALSE, gcpAccess |-> TRUE]
  /\ ~userDocs["u2"].exists /\ issued = 2

\* C20: a grantGCPAccess call that succeeds only adds to the caller's claims:
\* every claim held before, admin=true in particular, is still held with the
\* same value, so the token an administrator gets by refreshing after a
\* self-grant still passes checkAdminAuth.
C20_SelfGrantKeepsClaims ==
  [][/\ Granted("ok") =>
          accounts'[reply'.call.caller].claims.admin
            = accounts[reply'.call.caller].claims.admin
     /\ \A u \in Uids :
          (reply.call.op = "grantGCPAccess" /\ reply.code = "ok"
             /\ reply.call.caller = u /\ reply.call.tok.admin
             /\ token'[u] # token[u]) => token'[u].admin]_vars

\* C21: a setCustomAdminClaims(email, isAdmin) call that succeeds has set the
\* claims of the account found by the email to {gcpAccess: true, admin:
\* isAdmin} and the isAdmin of its users/{uid} record to the same value, by a
\* merge: the step that writes the record leaves its other fields, and every
\* other record, as they were.  With no other operation issued, claims and
\* record hold these values when the call returns.
C21_AdminClaimsPost ==
  [][/\ \A c \in Slots :
          (StepOf(c) /\ calls[c].op = "setCustomAdminClaims") =>
            /\ (calls[c].pc = "claims" /\ InFlight(c)') =>
                 /\ accounts'[calls[c].target].claims
                      = [admin |-> (calls[c].flag = "true"), gcpAccess |-> TRUE]
                 /\ \A u \in Uids \ {calls[c].target} : accounts'[u] = accounts[u]
            /\ (calls[c].pc = "doc" /\ reply'.code = "ok") =>
                 /\ reply'.call = calls[c]
                 /\ userDocs'[calls[c].target].exists
                 /\ userDocs'[calls[c].target].isAdmin = (calls[c].flag = "true")
                 /\ userDocs'[calls[c].target].other = userDocs[calls[c].target].other
                 /\ \A u \in Uids \ {calls[c].target} : userDocs'[u] = userDocs[u]
            /\ reply'.code = "ok" => calls[c].pc = "doc"
     /\ (reply'.call.op = "setCustomAdminClaims" /\ reply'.code = "ok"
           /\ issued' = 1) =>
          /\ accounts'[reply'.call.target].claims
               = [admin |-> (reply'.call.flag = "true"), gcpAccess |-> TRUE]
          /\ userDocs'[reply'.call.target].isAdmin = (reply'.call.flag = "true")]_vars

\* u1's claims and record were set to admin = false by a call that kept the
\* other field of the record
C21_Witness ==
  /\ reply.call.op = "setCustomAdminClaims" /\ reply.code = "ok"
  /\ reply.call.target = "u1" /\ reply.call.flag = "false"
  /\ accounts["u1"].claims = [admin |-> FALSE, gcpAccess |-> TRUE]
  /\ userDocs["u1"] = [exists |-> TRUE, isAdmin |-> FALSE, other |-> "x"]

\* the step just taken was a call of op that returned
Answered(op) == reply'.call.op = op /\ reply'.code # "none"

\* C22: disableUserAccount and enableUserAccount change nothing but the
\* disabled flag of the target account: a success leaves the flag true after
\* Disable and false after Enable whatever it was before (so each is
\* idempotent and Disable followed by Enable ends with disabled = false), a
\* failure changes nothing, and the target's record otherwise (existence,
\* secret, claims), every other account, the users records and the files and
\* index entries of both tiers are as before.
C22_DisableEnableOnlyFlag ==
  [][\A op \in {"disableUserAccount", "enableUserAccount"} : Answered(op) =>
       /\ stores' = stores /\ userDocs' = userDocs
       /\ reply'.code # "ok" => accounts' = accounts
       /\ reply'.code = "ok" =>
            /\ accounts' = [accounts EXCEPT ![reply'.call.target].disabled =
                              (op = "disableUserAccount")]
            /\ (accounts[reply'.call.target].disabled = (op = "disableUserAccount"))
                 => accounts' = accounts]_vars

\* u1 was disabled and kept its claims and secret
C22_Witness ==
  /\ reply.call.op = "disableUserAccount" /\ reply.code = "ok"
  /\ reply.call.target = "u1" /\ accounts["u1"].disabled
  /\ accounts["u1"].exists /\ accounts["u1"].password = InitPassword
  /\ accounts["u1"].claims = [admin |-> TRUE, gcpAccess |-> TRUE]
  /\ ~accounts["u2"].disabled

UidsOf(users) == [j \in 1..Len(users) |-> users[j].uid]

NoDuplicates(s) == \A i, j \in 1..Len(s) : s[i] = s[j] => i = j

\* the accounts up to the page token are in the list, each once
ListedUpTo(users, pageToken) ==
  /\ NoDuplicates(UidsOf(users))
  /\ \A u \in Uids :
       (accounts[u].exists /\ Pos(u) <= Pos(pageToken)) => u \in Range(UidsOf(users))
  /\ \A u \in Range(UidsOf(users)) : Pos(u) <= Pos(pageToken)

\* C24: fetchUsers follows the page token until there is none and then
\* returns: every page it reads moves the token forward, so the loop ends, and
\* however the backend cuts the accounts into pages the list returned holds
\* every account once, with no duplicate and none left out; with no other
\* operation issued it is exactly the accounts that exist.
C24_FetchUsersAllPages ==
  /\ [](\A c \in Slots : calls[c].op = "fetchUsers" =>
          ListedUpTo(calls[c].users, calls[c].pageToken))
  /\ [][\A c \in Slots :
          (calls[c].op = "fetchUsers" /\ calls'[c] # calls[c]) =>
            /\ InFlight(c)' =>
                 /\ Pos(calls'[c].pageToken) > Pos(calls[c].pageToken)
                 /\ SubSeq(calls'[c].users, 1, Len(calls[c].users)) = calls[c].users
            /\ (~InFlight(c)' /\ reply'.code = "ok") =>
                 /\ reply'.call = calls[c]
                 /\ Remaining(calls[c].pageToken)
                      = SubSeq(UidsOf(reply'.data), Len(calls[c].users) + 1,
                               Len(reply'.data))
                 /\ NoDuplicates(UidsOf(reply'.data))
                 /\ \A u \in Uids :
                      accounts[u].exists => u \in Range(UidsOf(reply'.data))
                 /\ issued = 1 => Range(reply'.data) = UserList]_vars

\* the backend gave u1 on a first page with a token and u2 on a second
C24_Witness ==
  /\ reply.call.op = "fetchUsers" /\ reply.code = "ok"
  /\ reply.call.pageToken = "u1" /\ Len(reply.call.users) = 1
  /\ UidsOf(reply.data) = <<"u1", "u2">>

\* C25: a deleteUserAccount(uid) call that succeeds removes the identity
\* record of that account and nothing else: the files of the account in the
\* Hot and the Cold tier, its index entries, the users records and every other
\* account are as before; and it is terminal: no operation makes an account
\* that does not exist exist again.
C25_DeleteTerminalNoCascade ==
  [][/\ (Answered("deleteUserAccount") /\ reply'.code = "ok") =>
          /\ accounts[reply'.call.target].exists
          /\ ~accounts'[reply'.call.target].exists
          /\ \A u \in Uids \ {reply'.call.target} : accounts'[u] = accounts[u]
          /\ stores' = stores /\ userDocs' = userDocs
     /\ \A u \in Uids : ~accounts[u].exists => ~accounts'[u].exists]_vars

\* u2 was deleted and an operation was issued after that: u2 is still gone,
\* its Hot object is still there
C25_Witness ==
  /\ ~accounts["u2"].exists /\ accounts["u1"].exists
  /\ issued = 2 /\ reply.call.op = "setCustomAdminClaims"
  /\ reply.call.target = "u2" /\ reply.code = "unknown"
  /\ hot[<<"u2", "f1">>] = "b2"

\* the callable functions of index.ts
CallSurface ==
  TierOps \cup LifecycleOps \cup {"grantGCPAccess", "setCustomAdminClaims"}

\* the error codes of the taxonomy
Taxonomy ==
  {"unauthenticated", "permission-denied", "invalid-argument", "not-found",
   "internal"}

\* C26: every call of the call surface that fails returns an error whose code
\* is one of unauthenticated, permission-denied, invalid-argument, not-found
\* and internal; a fault of the auth backend, the bucket or the index store
\* inside a handler is returned under one of these codes.
C26_ErrorTaxonomy ==
  (reply.call.op \in CallSurface /\ reply.code \notin {"none", "ok"}) =>
    reply.code \in Taxonomy

\* the request data of the call lacks a required field (or isAdmin is not a
\* boolean)
MissingField(call) ==
  \/ /\ call.op \in {"resetUserPassword", "disableUserAccount",
                     "enableUserAccount", "deleteUserAccount"}
     /\ call.target = NoUid
  \/ /\ call.op = "setCustomAdminClaims"
     /\ (call.target = NoUid \/ call.flag \notin {"true", "false"})
  \/ call.op = "downloadFromGCPBucket" /\ call.name = NoName
  \/ call.op = "uploadToGCPBucket" /\ (call.name = NoName \/ call.url = NoUrl)

\* the call passes the handler's check of the caller
PassesAuth(call) ==
  /\ call.caller # NoAuth
  /\ call.op \in LifecycleOps => call.tok.admin

\* C27: a call that omits a required field fails with invalid-argument before
\* any mutation: when it returns, its code is invalid-argument, and no step of
\* it has changed the accounts and their claims, the users records, the two
\* tiers or the index.
C27_MissingFieldInvalidArgument ==
  [][/\ (reply'.code # "none" /\ MissingField(reply'.call)
           /\ PassesAuth(reply'.call)) =>
          /\ reply'.code = "invalid-argument"
          /\ UNCHANGED <<accounts, userDocs, hot, cold, index>>
     /\ \A c \in Slots : (StepOf(c) /\ MissingField(calls[c])) =>
          UNCHANGED <<accounts, userDocs, hot, cold, index>>]_vars

\* C28: when an uploadToGCPBucket call ends, by success or by a failure at
\* the fetch, the staging write, the Cold upload or the index write, the
\* removal of its staging file has been attempted and no file is left at its
\* staging path; the outcome is decided by the step that ended the call alone
\* ("ok" exactly for an index write that went through, "internal" otherwise,
\* with the index untouched), whether the removal succeeded or failed.
C28_StagingReleased ==
  [][\A c \in Slots :
       (StepOf(c) /\ calls[c].op = "uploadToGCPBucket" /\ reply'.code # "none") =>
         /\ reply'.call = calls[c]
         /\ reply'.cleanup \in {"removed", "warned"}
         /\ calls[c].name \in Names => tmp'[calls[c].name] = None
         /\ reply'.code = "ok" => (calls[c].pc = "index" /\ index'[Key(calls[c])])
         /\ (calls[c].pc = "index" /\ index'[Key(calls[c])] # index[Key(calls[c])])
              => reply'.code = "ok"
         /\ reply'.code # "ok" => (reply'.code = "internal" /\ index' = index)]_vars

\* an archive has succeeded although the removal of its staging file failed
C28_Witness ==
  /\ reply.call.op = "uploadToGCPBucket" /\ reply.call.pc = "index"
  /\ reply.code = "ok" /\ reply.cleanup = "warned"
  /\ index[Key(reply.call)]

\* call d has staged its bytes and has not yet uploaded them
Staged(d) == calls[d].op = "uploadToGCPBucket" /\ calls[d].pc = "cold"

\* C29: for overlapping uploadToGCPBucket calls, a Cold upload that goes
\* through puts at the call's Cold key exactly the bytes the call fetched from
\* its own fileUrl, and no step of a call (staging write or cleanup) changes
\* the staging file of another call that has staged its bytes.
C29_StagingNotShared ==
  [][\A c \in Slots :
       (StepOf(c) /\ calls[c].op = "uploadToGCPBucket") =>
         /\ (calls[c].pc = "cold" /\ InFlight(c)') =>
              cold'[Key(calls[c])] = calls[c].bytes
         /\ \A d \in Slots \ {c} :
              Staged(d) => tmp'[calls[d].name] = tmp[calls[d].name]]_vars

\* C30: the content of the admin-only route is rendered only when
\* authentication has finished loading, a user is signed in and the client's
\* admin flag is true; the content of a protected route is rendered only when
\* authentication has finished loading and a user is signed in; in every other
\* state a protected route shows the placeholder or redirects.
C30_ProtectedRoutes ==
  /\ Rendered = Page("Adminpage") =>
       (~client.loading /\ client.currentUser \in Uids /\ client.isAdmin)
  /\ Rendered \in {Page("Main"), Page("Adminpage")} =>
       (~client.loading /\ client.currentUser \in Uids)
  /\ (client.path \in {"/main", "/admin"}
        /\ Rendered \notin {Page("Main"), Page("Adminpage")}) =>
       Rendered \in {Page("Loading"), Navigate("/login"), Navigate("/main")}
  /\ (client.path = "/admin" /\ ~client.loading /\ client.currentUser \in Uids
        /\ ~client.isAdmin) => Rendered = Navigate("/main")

\* the admin page is shown to a signed-in administrator
C30_Witness ==
  /\ client.path = "/admin" /\ Rendered = Page("Adminpage")
  /\ client.currentUser = "u1" /\ client.isAdmin /\ ~client.loading

\* slot c holds an archive made with the caller's own Hot object that no other
\* operation has overlapped with a write
OwnArchive(c) ==
  /\ calls[c].op \in {"uploadToGCPBucket", "moveToGCPBucket"}
  /\ OwnHotUrl(calls[c]) /\ calls[c].quiet

\* C31: within one archive of (account, fileName) the index entry is written
\* only after the Cold upload has succeeded and the Hot object is deleted only
\* after the index write has succeeded: when the index write is due the Cold
\* copy holds the bytes of the call, when the Hot delete is due the Cold copy
\* and the entry are there, no other step of the archive changes the index or
\* the Hot object, and the Hot object is never gone while the Cold copy or the
\* entry is missing.
C31_ArchiveStepOrder ==
  /\ [](\A c \in Slots : OwnArchive(c) =>
          /\ calls[c].pc = "index" => cold[Key(calls[c])] = calls[c].bytes
          /\ calls[c].pc = "hotDelete" =>
               (cold[Key(calls[c])] # None /\ index[Key(calls[c])])
          /\ calls[c].pc \in {"stage", "cold", "index", "hotDelete"} =>
               hot[Key(calls[c])] # None)
  /\ [][\A c \in Slots : (StepOf(c) /\ OwnArchive(c)) =>
          /\ index'[Key(calls[c])] # index[Key(calls[c])] =>
               (calls[c].pc = "index" /\ index'[Key(calls[c])])
          /\ hot'[Key(calls[c])] # hot[Key(calls[c])] =>
               /\ calls[c].pc = "hotDelete" /\ hot'[Key(calls[c])] = None
               /\ cold'[Key(calls[c])] # None /\ index'[Key(calls[c])]]_vars

\* the Hot delete of an archive is due: its Cold upload and its index write
\* have gone through
C31_Witness ==
  \E c \in Slots :
    /\ OwnArchive(c) /\ calls[c].pc = "hotDelete"
    /\ hot[Key(calls[c])] = "b1" /\ cold[Key(calls[c])] = "b1"
    /\ index[Key(calls[c])]

\* slot c holds a retrieve that no other operation has overlapped with a write
OwnRetrieve(c) == calls[c].op = "downloadFromGCPBucket" /\ calls[c].quiet

LacksClaim(call) ==
  \/ call.caller = NoAuth
  \/ call.op \in LifecycleOps \cup {"setCustomAdminClaims"} /\ ~call.tok.admin
  \/ call.op \in TierOps /\ ~call.tok.gcpAccess

\* C33: the authorization check precedes argument validation and every read
\* or write: a call by a caller lacking the required claim that also omits a
\* required field ends at its first step with the authorization error, not
\* with invalid-argument, and has changed nothing.
C33_AuthorizationFirst ==
  [][/\ (reply'.code # "none" /\ MissingField(reply'.call)
           /\ LacksClaim(reply'.call)) =>
          /\ reply'.code \in {"unauthenticated", "permission-denied"}
          /\ reply'.call.pc = "begin"
          /\ UNCHANGED <<accounts, userDocs, token, hot, cold, index, tmp>>
     /\ \A c \in Slots : (MissingField(calls[c]) /\ LacksClaim(calls[c])) =>
          ~InFlight(c)]_vars

\* the bytes of the file at key k before any operation: Init
Before(k) ==
  IF k[2] = "f1" THEN (IF k[1] = "u1" THEN "b1" ELSE "b2") ELSE "b1"

\* C34: for archives and retrieves issued one after the other, any step of
\* which may fail, and with no delete by the user, every file that existed
\* before is in at least one of the two tiers, with its bytes, in every
\* reachable state, and no step takes a file out of both tiers.
C34_NoLossUnderFailures ==
  /\ [](\A k \in Keys : hot[k] = Before(k) \/ cold[k] = Before(k))
  /\ [][\A k \in Keys :
          (hot[k] # None \/ cold[k] # None) =>
            (hot'[k] # None \/ cold'[k] # None)]_vars

\* a retrieve that followed an archive of the same file has ended at a failed
\* step of its own
C34_Witness ==
  /\ issued = 2 /\ NoneInFlight
  /\ reply.call.op = "downloadFromGCPBucket" /\ reply.code = "internal"
  /\ reply.call.pc \in {"save", "deleteCold", "deleteIndex"}
  /\ Key(reply.call) = <<"u1", "f1">>

\* C35: for every interleaving of concurrent archives and retrieves, with no
\* delete by the user, every file is in at least one of the two tiers in every
\* reachable state.
C35_NoLossUnderConcurrency ==
  \A k \in Keys : hot[k] # None \/ cold[k] # None

\* the step just taken was the run of the trigger setCustomClaims for uid
TriggerRan(uid) ==
  accounts[uid].onCreate = "pending" /\ accounts'[uid].onCreate = "done"

\* C36: the trigger setCustomClaims never revokes a granted claim: when it
\* runs for an account after grantGCPAccess or setCustomAdminClaims has
\* succeeded for that account, the account's claims after the run still have
\* gcpAccess=true and the admin value that the call set.
C36_TriggerKeepsGrants ==
  [][\A uid \in Uids :
       (TriggerRan(uid) /\ accounts[uid].claims.gcpAccess) =>
         accounts'[uid].claims = accounts[uid].claims]_vars

\* C37: every uploadToGCPBucket call by an authenticated caller eventually
\* returns to its caller, with success or with an error, whatever the outcome
\* of its steps.
C37_ArchiveReturns ==
  \A c \in Slots :
    (calls[c].op = "uploadToGCPBucket") ~> (calls[c].op # "uploadToGCPBucket")

\* the client has settled: authentication has finished loading and no listener
\* callback, login or logout is under way
Settled ==
  /\ ~client.loading /\ ~client.pending /\ client.listeners = {}
  /\ client.loginPc = "idle" /\ client.logoutPc = "idle"

\* C38: whenever the settled client treats the signed-in user as administrator
\* (AuthProvider.isAdmin is true), that user's account carries the claim
\* admin=true that checkAdminAuth requires, so after handleSetAdmin has run for
\* the bootstrap email the account's Account Lifecycle calls are authorized;
\* handleSetAdmin changes nothing for a user with another email.
C38_AdminFlagAgrees ==
  /\ [](( Settled /\ client.currentUser \in Uids /\ client.isAdmin) =>
          accounts[client.currentUser].claims.admin)
  /\ [][(userDocs' # userDocs) => client.currentUser = BootstrapUid]_vars

\* C39: for a file present only in the Hot tier with bytes b, a successful
\* archive followed by a successful retrieve of the same name leaves a Hot
\* object at {account}/{fileName} with bytes exactly b, no Cold object and no
\* index entry.
C39_ArchiveRetrieveRoundTrip ==
  (/\ reply.call.op = "downloadFromGCPBucket" /\ reply.code = "ok"
   /\ reply.call.archived /\ Key(reply.call)[2] = "f1") =>
    /\ hot[Key(reply.call)] = Before(Key(reply.call))
    /\ cold[Key(reply.call)] = None
    /\ ~index[Key(reply.call)]

\* u1/f1, at first in the Hot tier only, was archived and then retrieved
C39_Witness ==
  /\ reply.call.op = "downloadFromGCPBucket" /\ reply.code = "ok"
  /\ reply.call.archived /\ Key(reply.call) = <<"u1", "f1">>
  /\ hot[<<"u1", "f1">>] = "b1" /\ issued = 2

====
